---- MODULE Spec2Model ----
(***************************************************************************)
(* Model of the ingestion pipeline of scripts/job_scraper.py:              *)
(*   - FirebaseManager (job id, existence check, batched job/match write), *)
(*     cleanup_expired_jobs and the run phases of JobEngine.run;           *)
(*   - RateLimiter (wait / record_error / record_success);                 *)
(*   - ScraperFactory.fetch_with_retry with CompanyValidator;              *)
(*   - JobScorer.calculate_score.                                          *)
(* Four specifications share the module: Spec (the store), SpecRate (one   *)
(* RateLimiter under arbitrary calls), SpecFetch (the fetch path of a run) *)
(* and SpecScore (calls of the scorer).                                    *)
(***************************************************************************)
EXTENDS Integers, Sequences, FiniteSets, TLC

VARIABLES
    \* ---- the document store (Firestore) and FirebaseManager ----
    jobs,               \* collection 'jobs': job id -> document
    user_job_matches,   \* collection 'user_job_matches': match id -> document
    job_id_cache,       \* FirebaseManager.job_id_cache
    batch,              \* the WriteBatch of the running add_job_and_match_batch
    batch_count,        \* its local batch_count
    successful_matches, \* its local successful_matches
    total_matches_created, \* GlobalMetrics.total_matches_created
    user_match_counts,  \* GlobalMetrics.user_match_counts: email -> count
    pc,                 \* "idle" | "loop" | "returned" | "raised"
    phase,              \* JobEngine.run: "init" | "cleanup" | "targets" | "report"
    today,              \* wall clock, in days
    missingFieldRaises, \* store client: DocumentSnapshot.get of an absent field raises
    \* ---- bookkeeping of the model (history, not program state) ----
    accepted,           \* the (job, email) pairs handed to add_job_and_match_batch
    written,            \* those of them whose two writes were queued
    processed,          \* how many pairs the loop has consumed, over all calls
    call_nonempty,      \* the current call's list has at least one pair
    ticks,              \* clock steps taken
    runs,               \* runs started
    commit_failed,      \* some commit has failed
    committed_writes,   \* the writes that commits of the current call applied
    commit_tries,       \* commit() calls that failed since the call's last good commit
    user_marked,        \* history: the <<match id, field>> the user has set to True
    \* ---- one RateLimiter under arbitrary calls (SpecRate) ----
    limiter,            \* [delay, last_call, consecutive_errors], times in ms
    rate_milli,         \* its configured calls_per_second, in 1/1000 calls per second
    now,                \* asyncio event-loop clock, in ms
    last_op,            \* history: the last call made on the limiter
    delay_before,       \* history: limiter.delay before that call
    grants,             \* history: wait() calls that have returned
    first_grant,        \* history: time of the first grant
    last_gap,           \* history: time between the last two grants
    ops,                \* history: record_error / record_success calls made
    \* ---- the fetch path of a run (SpecFetch) ----
    rate_limiters,      \* the module-level dict: ats -> RateLimiter
    target_id,          \* target['id'] of each target (validate_and_correct rewrites it)
    tidx,               \* JobEngine.run: index of the target being processed
    fpc,                \* "idle" | "validate" | "head" | "wait" | "fetch" | "get" |
                        \* "done" | "flushed" | "crashed"
    is_valid,           \* result of validate_and_correct for the current target
    jobs_found,         \* len(jobs) returned by fetch_with_retry
    requests,           \* history: HTTP requests sent, per ats
    wait_grants,        \* history: limiter.wait() grants, per ats
    in_flight,          \* requests sent whose response has not arrived, per ats
    attempt,            \* fetch_with_retry: its attempt parameter
    fetch_failed,       \* history: the targets whose fetch met a transient failure
    company_status,     \* GlobalMetrics.company_metrics[name].status, per target
    companies_scraped,  \* GlobalMetrics.companies_scraped
    companies_failed,   \* GlobalMetrics.companies_failed
    total_errors,       \* GlobalMetrics.total_errors
    ats_metrics,        \* GlobalMetrics.ats_metrics: ats -> [success, failed]
    \* ---- one call of JobScorer.calculate_score (SpecScore) ----
    score_job,          \* its argument job
    score_source,       \* history: the source's timestamp the job was mapped from
    score_profile,      \* its argument profile
    scoring,            \* the dict it returned, <<>> before the call
    scoring_prev,       \* history: the dict the call before it returned
    hash_seed           \* the interpreter's string-hash seed (PYTHONHASHSEED)

storeVars == <<jobs, user_job_matches, job_id_cache, batch, batch_count,
               successful_matches, pc, phase, today, missingFieldRaises,
               accepted, written, processed, call_nonempty, ticks, runs,
               commit_failed, committed_writes, commit_tries, user_marked,
               total_matches_created, user_match_counts>>

rateVars == <<limiter, rate_milli, now, last_op, delay_before, grants,
              first_grant, last_gap, ops>>

fetchVars == <<rate_limiters, target_id, tidx, fpc, is_valid, jobs_found,
               requests, wait_grants, in_flight, attempt, fetch_failed,
               company_status, companies_scraped, companies_failed, total_errors,
               ats_metrics>>

scoreVars == <<score_job, score_source, score_profile, scoring, scoring_prev,
               hash_seed>>

vars == <<storeVars, rateVars, fetchVars, scoreVars>>

----------------------------------------------------------------------------
\* Bounds of the model.
MaxPairs == 3       \* pairs handed to add_job_and_match_batch per behaviour
MaxTicks == 1       \* clock steps per behaviour
MaxRuns  == 2       \* runs of the engine per behaviour
MaxMarks == 1       \* fields of match documents the user sets per behaviour

MaxOps == 4         \* record_error / record_success calls per behaviour
MaxGrants == 2      \* wait() calls per behaviour

\* Config (job_scraper.py:119-139).
JOB_EXPIRATION_DAYS == 30
\* Config.FIREBASE_BATCH_SIZE is 200 in the source; the model scales it down.
FIREBASE_BATCH_SIZE == 2

\* The store rejects a batch of more than 500 writes (job_scraper.py:134:
\* 200 pairs x 2 writes = 400 of 500); scaled with FIREBASE_BATCH_SIZE.
MaxBatchWrites == (5 * FIREBASE_BATCH_SIZE) \div 2

None == "None"

----------------------------------------------------------------------------
\* Inputs: postings of one target company and the profiles' emails.
Postings ==
    { [company |-> "Acme", title |-> "Product Manager", location |-> "Remote"],
      [company |-> "Acme", title |-> "product manager", location |-> "New York"],
      [company |-> "Acme", title |-> "Data PM",         location |-> "Remote"],
      [company |-> "Acme", title |-> "Growth PM",       location |-> "Remote"] }

Emails == {"ann@x.io", "bob@x.io", "nobody@x.io"}

\* str.lower() on the strings of the model.
Lower(s) ==
    CASE s = "Acme"            -> "acme"
      [] s = "Product Manager" -> "product manager"
      [] s = "Data PM"         -> "data pm"
      [] s = "Growth PM"       -> "growth pm"
      [] s = "Remote"          -> "remote"
      [] s = "New York"        -> "new york"
      [] s = "Senior Product Manager" -> "senior product manager"
      [] s = "Senior Software Engineer, Product" -> "senior software engineer, product"
      [] s = "Group Product Manager" -> "group product manager"
      [] s = "Business Development Lead" -> "business development lead"
      [] s = "San Francisco, CA" -> "san francisco, ca"
      [] s = "Berlin, Germany" -> "berlin, germany"
      [] s = "Cambridge, UK" -> "cambridge, uk"
      [] s = "New York or London" -> "new york or london"
      [] s = "London/Paris" -> "london/paris"
      [] s = "Vancouver, WA" -> "vancouver, wa"
      [] s = "Remote - UK or Toronto/Austin, TX" -> "remote - uk or toronto/austin, tx"
      [] s = "Intern" -> "intern"
      [] OTHER                 -> s

\* hashlib.md5(s).hexdigest()[:16]: a digest, collision-free on the model's inputs.
Md5Hex16(s) == <<"md5_16", s>>

\* FirebaseManager.generate_job_id
generate_job_id(company, title) ==
    Md5Hex16(Lower(company) \o ":" \o Lower(title))

\* match_id = f"{user_id}_{job_id}"
MatchId(user_id, job_id) == <<user_id, "_", job_id>>

\* auth.get_user_by_email: the uid of a registered email, None for an unknown one.
AuthUid(email) ==
    CASE email = "ann@x.io" -> "uidAnn"
      [] email = "bob@x.io" -> "uidBob"
      [] OTHER              -> None

JobIds == { generate_job_id(p.company, p.title) : p \in Postings }

----------------------------------------------------------------------------
\* Firestore: set(ref, data, merge=True) keeps the fields that data lacks.
SetMerge(coll, id, data) ==
    LET doc == IF id \in DOMAIN coll
               THEN [f \in (DOMAIN coll[id]) \cup (DOMAIN data) |->
                        IF f \in DOMAIN data THEN data[f] ELSE coll[id][f]]
               ELSE data
    IN  [k \in (DOMAIN coll) \cup {id} |-> IF k = id THEN doc ELSE coll[k]]

\* One queued write applied to the two collections.
ApplyWrite(st, w) ==
    IF w.coll = "jobs"
    THEN [st EXCEPT !.jobs = SetMerge(st.jobs, w.id, w.data)]
    ELSE [st EXCEPT !.matches = SetMerge(st.matches, w.id, w.data)]

\* WriteBatch.commit(): every queued write is applied, in order, atomically.
RECURSIVE ApplyBatch(_, _)
ApplyBatch(st, b) ==
    IF b = <<>> THEN st ELSE ApplyBatch(ApplyWrite(st, Head(b)), Tail(b))

\* A commit can succeed only within the store's write limit.
CommitAllowed(b) == Len(b) <= MaxBatchWrites

\* When a job document was first seen: its postedAt, else the day it was written.
FirstSeen(doc) ==
    IF "postedAt" \in DOMAIN doc THEN doc.postedAt
    ELSE doc.expiresAt - JOB_EXPIRATION_DAYS

\* FirebaseManager.get_user_id: the uid of the email (memoised in user_cache), None
\* for an email the auth service does not know.
get_user_id(email) == AuthUid(email)

\* FirebaseManager.check_job_exists: the value it returns.
check_job_exists(job_id) ==
    IF job_id \in job_id_cache THEN TRUE
    ELSE IF job_id \notin DOMAIN jobs THEN FALSE
    ELSE IF "postedAt" \notin DOMAIN jobs[job_id]
         THEN ~missingFieldRaises       \* KeyError -> except -> False; None -> True
         ELSE today - jobs[job_id].postedAt < JOB_EXPIRATION_DAYS

\* The two writes add_job_and_match_batch queues for one accepted pair.
JobWrite(job, email, job_id) ==
    [coll |-> "jobs", id |-> job_id, pair |-> <<job, email>>,
     data |-> [company |-> job.company, title |-> job.title,
               location |-> job.location,
               expiresAt |-> today + JOB_EXPIRATION_DAYS]]

MatchWrite(job, email, user_id, job_id) ==
    [coll |-> "user_job_matches", id |-> MatchId(user_id, job_id),
     pair |-> <<job, email>>,
     data |-> [userId |-> user_id, jobId |-> job_id,
               viewed |-> FALSE, saved |-> FALSE, applied |-> FALSE]]

\* Mutant: the match write is not queued on the batch of the job write.
PairWrites_JobOnly(job, email, user_id, job_id) ==
    <<JobWrite(job, email, job_id)>>

PairWrites(job, email, user_id, job_id) ==
    <<JobWrite(job, email, job_id), MatchWrite(job, email, user_id, job_id)>>

WriteTags(b) == { [coll |-> b[k].coll, pair |-> b[k].pair] : k \in 1..Len(b) }

----------------------------------------------------------------------------
\* A job document written by an earlier revision of the scraper (it has postedAt
\* and no expiresAt; see cleanup_db.py).
LegacyJobs ==
    LET id == generate_job_id("Acme", "Product Manager")
    IN  [k \in {id} |-> [company |-> "Acme", title |-> "Product Manager",
                         location |-> "Remote", postedAt |-> 0]]

EmptyColl == [k \in {} |-> 0]

StoreInit ==
    /\ jobs \in {EmptyColl, LegacyJobs}
    /\ user_job_matches = EmptyColl
    /\ job_id_cache = {}
    /\ batch = <<>>
    /\ batch_count = 0
    /\ successful_matches = 0
    /\ pc = "idle"
    /\ phase = "init"
    /\ today = 0
    /\ missingFieldRaises \in BOOLEAN
    /\ accepted = {}
    /\ written = {}
    /\ processed = 0
    /\ call_nonempty = FALSE
    /\ ticks = 0
    /\ runs = 0
    /\ commit_failed = FALSE
    /\ committed_writes = {}
    /\ commit_tries = 0
    /\ user_marked = {}
    /\ total_matches_created = 0
    /\ user_match_counts = [e \in Emails |-> 0]

\* JobEngine.__init__ / run: a new engine has a new FirebaseManager (empty cache).
NewRun ==
    /\ pc \in {"idle", "returned", "raised"}
    /\ phase \in {"init", "targets", "report"}
    /\ runs < MaxRuns
    /\ runs' = runs + 1
    /\ phase' = "cleanup"
    /\ pc' = "idle"
    /\ job_id_cache' = {}
    /\ total_matches_created' = 0
    /\ user_match_counts' = [e \in Emails |-> 0]
    /\ UNCHANGED <<jobs, user_job_matches, batch, batch_count, successful_matches,
                   today, missingFieldRaises, accepted, written, processed,
                   call_nonempty, ticks, commit_failed, committed_writes,
                   commit_tries, user_marked>>

\* cleanup_expired_jobs: deletes, in batches, the documents with expiresAt < now;
\* a failing commit ends the sweep and leaves the earlier batches deleted.
Expired == { id \in DOMAIN jobs :
                /\ "expiresAt" \in DOMAIN jobs[id]
                /\ jobs[id].expiresAt < today }

Cleanup ==
    /\ phase = "cleanup"
    /\ \E D \in SUBSET Expired :
          /\ \/ D = Expired
             \/ /\ Cardinality(D) % FIREBASE_BATCH_SIZE = 0
                /\ \A d \in D, e \in Expired \ D :
                      jobs[d].expiresAt <= jobs[e].expiresAt
          /\ jobs' = [k \in (DOMAIN jobs) \ D |-> jobs[k]]
    /\ phase' = "targets"
    /\ UNCHANGED <<user_job_matches, job_id_cache, batch, batch_count,
                   successful_matches, pc, today, missingFieldRaises, accepted,
                   written, processed, call_nonempty, ticks, runs, commit_failed,
                   committed_writes, commit_tries, user_marked,
                   total_matches_created, user_match_counts>>

\* add_job_and_match_batch, entry (lines 1303-1309), called by _process_company
\* for the target's accepted pairs.
StartBatch ==
    /\ phase = "targets"
    /\ pc = "idle"
    /\ processed < MaxPairs
    /\ pc' = "loop"
    /\ batch' = <<>>
    /\ batch_count' = 0
    /\ successful_matches' = 0
    /\ call_nonempty' = FALSE
    /\ committed_writes' = {}
    /\ commit_tries' = 0
    /\ UNCHANGED <<jobs, user_job_matches, job_id_cache, phase, today,
                   missingFieldRaises, accepted, written, processed, ticks, runs,
                   commit_failed, user_marked, total_matches_created,
                   user_match_counts>>

\* add_job_and_match_batch, one iteration of the loop (lines 1311-1372).
LoopItem(job, email, commitOk) ==
    /\ pc = "loop"
    /\ processed < MaxPairs
    /\ LET user_id == get_user_id(email)
           job_id  == generate_job_id(job.company, job.title)
           found   == check_job_exists(job_id)
           queued  == batch \o PairWrites(job, email, user_id, job_id)
           full    == batch_count + 1 >= FIREBASE_BATCH_SIZE
           ok      == commitOk /\ CommitAllowed(queued)
           st      == ApplyBatch([jobs |-> jobs, matches |-> user_job_matches], queued)
       IN  /\ accepted' = accepted \cup {<<job, email>>}
           /\ processed' = processed + 1
           /\ call_nonempty' = TRUE
           /\ written' = IF user_id # None /\ ~found
                         THEN written \cup {<<job, email>>} ELSE written
           /\ IF user_id = None
              THEN UNCHANGED <<jobs, user_job_matches, job_id_cache, batch,
                               batch_count, successful_matches, commit_failed,
                               committed_writes, commit_tries, user_match_counts>>
              ELSE IF found
              THEN /\ job_id_cache' = job_id_cache \cup {job_id}
                   /\ UNCHANGED <<jobs, user_job_matches, batch, batch_count,
                                  successful_matches, commit_failed,
                                  committed_writes, commit_tries, user_match_counts>>
              ELSE /\ job_id_cache' = job_id_cache \cup {job_id}
                   /\ user_match_counts' =
                         [user_match_counts EXCEPT ![email] = @ + 1]
                   /\ successful_matches' = successful_matches + 1
                   /\ IF full /\ ok
                      THEN /\ jobs' = st.jobs
                           /\ user_job_matches' = st.matches
                           /\ batch' = <<>>
                           /\ batch_count' = 0
                           /\ committed_writes' =
                                 committed_writes \cup WriteTags(queued)
                           /\ commit_tries' = 0
                           /\ UNCHANGED commit_failed
                      ELSE /\ batch' = queued
                           /\ batch_count' = batch_count + 1
                           /\ commit_failed' = (commit_failed \/ full)
                           /\ commit_tries' = commit_tries + (IF full THEN 1 ELSE 0)
                           /\ UNCHANGED <<jobs, user_job_matches, committed_writes>>
    /\ UNCHANGED <<pc, phase, today, missingFieldRaises, ticks, runs, user_marked,
                   total_matches_created>>

\* add_job_and_match_batch, after the loop (lines 1374-1379), and what
\* _process_company and add_company_metrics do with the value it returns (lines
\* 1940, 1132): a call that raises leaves jobs_matched at 0.
FinalCommit(commitOk) ==
    /\ pc = "loop"
    /\ call_nonempty
    /\ LET ok == commitOk /\ CommitAllowed(batch)
           st == ApplyBatch([jobs |-> jobs, matches |-> user_job_matches], batch)
       IN  IF batch_count > 0
           THEN IF ok
                THEN /\ jobs' = st.jobs
                     /\ user_job_matches' = st.matches
                     /\ committed_writes' = committed_writes \cup WriteTags(batch)
                     /\ batch' = <<>>
                     /\ pc' = "returned"
                     /\ commit_tries' = 0
                     /\ total_matches_created' =
                           total_matches_created + successful_matches
                     /\ UNCHANGED commit_failed
                ELSE /\ commit_failed' = TRUE
                     /\ commit_tries' = commit_tries + 1
                     /\ pc' = "raised"
                     /\ UNCHANGED <<jobs, user_job_matches, committed_writes, batch,
                                    total_matches_created>>
           ELSE /\ pc' = "returned"
                /\ total_matches_created' =
                      total_matches_created + successful_matches
                /\ UNCHANGED <<jobs, user_job_matches, committed_writes, batch,
                               commit_failed, commit_tries>>
    /\ phase' = "report"
    /\ UNCHANGED <<job_id_cache, batch_count, successful_matches, today,
                   missingFieldRaises, accepted, written, processed, call_nonempty,
                   ticks, runs, user_marked, user_match_counts>>

\* Time passes between runs.
Tick(d) ==
    /\ pc # "loop"
    /\ ticks < MaxTicks
    /\ ticks' = ticks + 1
    /\ today' = today + d
    /\ UNCHANGED <<jobs, user_job_matches, job_id_cache, batch, batch_count,
                   successful_matches, pc, phase, missingFieldRaises, accepted,
                   written, processed, call_nonempty, runs, commit_failed,
                   committed_writes, commit_tries, user_marked,
                   total_matches_created, user_match_counts>>

\* The user's client sets one of the fields 'viewed', 'saved', 'applied' of one of
\* the user's match documents (written as False at lines 1351-1353) to True.
UserMarks(match_id, f) ==
    /\ Cardinality(user_marked) < MaxMarks
    /\ match_id \in DOMAIN user_job_matches
    /\ ~user_job_matches[match_id][f]
    /\ user_job_matches' = [user_job_matches EXCEPT ![match_id][f] = TRUE]
    /\ user_marked' = user_marked \cup {<<match_id, f>>}
    /\ UNCHANGED <<jobs, job_id_cache, batch, batch_count, successful_matches, pc,
                   phase, today, missingFieldRaises, accepted, written, processed,
                   call_nonempty, ticks, runs, commit_failed, committed_writes,
                   commit_tries, total_matches_created, user_match_counts>>

----------------------------------------------------------------------------
\* RateLimiter (job_scraper.py:236-264). Times are in milliseconds, products are
\* rounded down to a whole millisecond.
Min(a, b) == IF a < b THEN a ELSE b
Max(a, b) == IF a > b THEN a ELSE b

ERROR_THRESHOLD == 3        \* record_error: consecutive_errors > 3
MAX_DELAY_MS == 10000       \* record_error: min(delay * 1.5, 10.0)
RECOVERY_FLOOR_MS == 500    \* record_success: max(delay * 0.9, 1.0 / 2)

\* Configured rates: GREENHOUSE_RATE 5 (the default) and slower rates set through
\* the environment: 1, 0.125 and 0.05 calls per second (base delays of 1 s, 8 s
\* and 20 s).
RatesMilli == {5000, 1000, 125, 50}

\* 1.0 / calls_per_second
BaseDelay(rate) == 1000000 \div rate

\* RateLimiter.__init__
RateLimiterNew(rate) ==
    [delay |-> BaseDelay(rate), last_call |-> 0, consecutive_errors |-> 0]

\* random.uniform(0.9, 1.1), in percent: both ends and the middle.
JitterPct == {90, 100, 110}

\* RateLimiter.wait: how long the call sleeps.
wait_time(l, t, jitter) ==
    IF t - l.last_call < l.delay
    THEN ((l.delay - (t - l.last_call)) * jitter) \div 100
    ELSE 0

\* RateLimiter.record_error, without the cap (mutant).
record_error_uncapped(l) ==
    [l EXCEPT !.consecutive_errors = l.consecutive_errors + 1,
              !.delay = IF l.consecutive_errors + 1 > ERROR_THRESHOLD
                        THEN (l.delay * 3) \div 2 ELSE l.delay]

\* RateLimiter.record_error
record_error(l) ==
    [l EXCEPT !.consecutive_errors = l.consecutive_errors + 1,
              !.delay = IF l.consecutive_errors + 1 > ERROR_THRESHOLD
                        THEN Min((l.delay * 3) \div 2, MAX_DELAY_MS)
                        ELSE l.delay]

\* RateLimiter.record_success
record_success(l) ==
    IF l.consecutive_errors > 0
    THEN [l EXCEPT !.consecutive_errors = 0,
                   !.delay = Max((l.delay * 9) \div 10, RECOVERY_FLOOR_MS)]
    ELSE l

RateInit ==
    /\ rate_milli \in RatesMilli
    /\ limiter = RateLimiterNew(rate_milli)
    /\ now = 1000
    /\ last_op = "none"
    /\ delay_before = limiter.delay
    /\ grants = 0
    /\ first_grant = 0
    /\ last_gap = 0
    /\ ops = 0

\* The limiter of the store specification is not used.
RateIdle ==
    /\ rate_milli = 5000
    /\ limiter = RateLimiterNew(rate_milli)
    /\ now = 0
    /\ last_op = "none"
    /\ delay_before = limiter.delay
    /\ grants = 0
    /\ first_grant = 0
    /\ last_gap = 0
    /\ ops = 0

\* await limiter.wait(): sleeps wait_time, then records the grant.
RateWait(jitter) ==
    /\ grants < MaxGrants
    /\ LET t == now + wait_time(limiter, now, jitter)
       IN  /\ now' = t
           /\ limiter' = [limiter EXCEPT !.last_call = t]
           /\ last_gap' = IF grants = 0 THEN 0 ELSE t - limiter.last_call
           /\ first_grant' = IF grants = 0 THEN t ELSE first_grant
    /\ grants' = grants + 1
    /\ last_op' = "wait"
    /\ delay_before' = limiter.delay
    /\ UNCHANGED <<rate_milli, ops>>

RateRecordError ==
    /\ ops < MaxOps
    /\ ops' = ops + 1
    /\ limiter' = record_error(limiter)
    /\ last_op' = "error"
    /\ delay_before' = limiter.delay
    /\ UNCHANGED <<rate_milli, now, grants, first_grant, last_gap>>

RateRecordSuccess ==
    /\ ops < MaxOps
    /\ ops' = ops + 1
    /\ limiter' = record_success(limiter)
    /\ last_op' = "success"
    /\ delay_before' = limiter.delay
    /\ UNCHANGED <<rate_milli, now, grants, first_grant, last_gap>>

\* Time passes between two calls on the limiter.
RateAdvance(d) ==
    /\ last_op # "advance"
    /\ grants < MaxGrants
    /\ now' = now + d
    /\ last_op' = "advance"
    /\ UNCHANGED <<limiter, rate_milli, delay_before, grants, first_grant, last_gap,
                   ops>>

----------------------------------------------------------------------------
\* The fetch path: JobEngine.run -> _process_company -> fetch_with_retry.

ATS == {"greenhouse", "ashby", "lever", "workday"}

\* Config.GREENHOUSE_RATE, ASHBY_RATE, LEVER_RATE, WORKDAY_RATE (calls per second).
ConfigRateMilli(ats) ==
    CASE ats = "greenhouse" -> 5000
      [] ats = "ashby"      -> 3000
      [] ats = "lever"      -> 4000
      [] ats = "workday"    -> 2000

\* Config.MAX_CONCURRENCY is 15 in the source; the model scales it down.
MAX_CONCURRENCY == 1

\* aiohttp.TCPConnector(limit=Config.MAX_CONCURRENCY * 2): the only concurrency cap
\* the engine configures; it bounds the open requests of the session, so those to
\* any one ATS.
ConnectorLimit == 2 * MAX_CONCURRENCY

\* Config.RETRY_ATTEMPTS
RETRY_ATTEMPTS == 3

\* TARGETS: a few entries of the target list, in priority order.
TARGETS ==
    << [name |-> "OpenAI",  ats |-> "greenhouse", id |-> "openai",  priority |-> 1],
       [name |-> "Netflix", ats |-> "lever",      id |-> "netflix", priority |-> 1],
       [name |-> "Tesla",   ats |-> "greenhouse", id |-> "tesla",   priority |-> 1] >>

\* CompanyValidator.get_known_corrections, on the names of TARGETS.
Corrected(name, id) ==
    CASE name = "Netflix" -> "netflix1"
      [] OTHER            -> id

\* ats_urls.get(target['ats']): validate_and_correct knows three boards.
HasBoardUrl(ats) == ats \in {"greenhouse", "ashby", "lever"}

\* Answers of the validation HEAD request and of the board GET request: a status,
\* a timeout, or a network error ("exception").
HeadAnswers == {"200", "404", "500", "exception"}
GetAnswers  == {"jobs", "no_jobs", "404", "500", "429", "timeout", "exception"}

\* The transient conditions: network error, timeout, HTTP 5xx, HTTP 429.
TransientAnswers == {"500", "429", "timeout", "exception"}

\* HTTP round-trip times, in ms.
RoundTrips == {50, 400}

\* What happens to a target with postings after the fetch: scoring and the store
\* call succeed, JobScorer.calculate_score raises, or add_job_and_match_batch
\* raises (its final commit, line 1376).
ProcessOutcomes == {"ok", "score_raises", "store_raises"}

\* _process_company, line 1947: "except Exception" catches both.
except_Exception_None(outcome) == FALSE

except_Exception(outcome) == outcome \in {"score_raises", "store_raises"}

\* "async with session.head/get(...) as resp": the call is awaited, the request
\* is over when the coroutine goes on.
Received_NotAwaited(n) == n

Received(n) == n - 1

\* GlobalMetrics.add_company_metrics, the per-ats counters.
AddAts(m, ats, status) ==
    IF status = "success"
    THEN [m EXCEPT ![ats].success = @ + 1]
    ELSE [m EXCEPT ![ats].failed = @ + 1]

FetchInit ==
    /\ rate_limiters = [a \in ATS |-> RateLimiterNew(ConfigRateMilli(a))]
    /\ target_id = [k \in 1..Len(TARGETS) |-> TARGETS[k].id]
    /\ tidx = 0
    /\ fpc = "idle"
    /\ is_valid = FALSE
    /\ jobs_found = 0
    /\ requests = [a \in ATS |-> 0]
    /\ wait_grants = [a \in ATS |-> 0]
    /\ in_flight = [a \in ATS |-> 0]
    /\ attempt = 0
    /\ fetch_failed = {}
    /\ company_status = [k \in 1..Len(TARGETS) |-> "pending"]
    /\ companies_scraped = 0
    /\ companies_failed = 0
    /\ total_errors = 0
    /\ ats_metrics = [a \in ATS |-> [success |-> 0, failed |-> 0]]

\* JobEngine.run, "for target in TARGETS": _process_company calls
\* fetch_with_retry(session, target), attempt = 1.
FetchBegin ==
    /\ fpc = "idle"
    /\ tidx < Len(TARGETS)
    /\ tidx' = tidx + 1
    /\ fpc' = "validate"
    /\ is_valid' = FALSE
    /\ jobs_found' = 0
    /\ attempt' = 1
    /\ UNCHANGED <<rate_limiters, target_id, requests, wait_grants, now, in_flight,
                   fetch_failed, company_status, companies_scraped,
                   companies_failed, total_errors, ats_metrics>>

\* CompanyValidator.validate_and_correct (lines 182-206): corrects the board id and
\* sends a HEAD request to the board.
SendHead ==
    /\ fpc = "validate"
    /\ LET t == TARGETS[tidx]
       IN  /\ target_id' = [target_id EXCEPT ![tidx] = Corrected(t.name, @)]
           /\ IF HasBoardUrl(t.ats)
              THEN /\ requests' = [requests EXCEPT ![t.ats] = @ + 1]
                   /\ in_flight' = [in_flight EXCEPT ![t.ats] = @ + 1]
                   /\ fpc' = "head"
              ELSE /\ fpc' = "done"
                   /\ UNCHANGED <<requests, in_flight>>
    /\ UNCHANGED <<rate_limiters, tidx, is_valid, jobs_found, wait_grants, now,
                   attempt, fetch_failed, company_status, companies_scraped,
                   companies_failed, total_errors, ats_metrics>>

\* validate_and_correct (lines 206-209): the answer to the HEAD request; a status
\* other than 200 or any exception makes fetch_with_retry return [].
Validate(answer, rtt) ==
    /\ fpc = "head"
    /\ LET a == TARGETS[tidx].ats
       IN  in_flight' = [in_flight EXCEPT ![a] = Received(@)]
    /\ now' = now + rtt
    /\ is_valid' = (answer = "200")
    /\ fetch_failed' = IF answer \in TransientAnswers
                       THEN fetch_failed \cup {tidx} ELSE fetch_failed
    /\ fpc' = IF is_valid' THEN "wait" ELSE "done"
    /\ UNCHANGED <<rate_limiters, target_id, tidx, jobs_found, requests,
                   wait_grants, attempt, company_status, companies_scraped,
                   companies_failed, total_errors, ats_metrics>>

\* fetch_with_retry, lines 1504-1506: limiter = rate_limiters.get(ats); wait().
LimiterWait(jitter) ==
    /\ fpc = "wait"
    /\ LET a == TARGETS[tidx].ats
           l == rate_limiters[a]
           t == now + wait_time(l, now, jitter)
       IN  /\ now' = t
           /\ rate_limiters' = [rate_limiters EXCEPT ![a] = [l EXCEPT !.last_call = t]]
           /\ wait_grants' = [wait_grants EXCEPT ![a] = @ + 1]
    /\ fpc' = "fetch"
    /\ UNCHANGED <<target_id, tidx, is_valid, jobs_found, requests, in_flight,
                   attempt, fetch_failed, company_status, companies_scraped,
                   companies_failed, total_errors, ats_metrics>>

\* _fetch_jobs -> _fetch_greenhouse / _fetch_ashby / _fetch_lever: session.get.
SendGet ==
    /\ fpc = "fetch"
    /\ LET a == TARGETS[tidx].ats
       IN  /\ requests' = [requests EXCEPT ![a] = @ + 1]
           /\ in_flight' = [in_flight EXCEPT ![a] = @ + 1]
    /\ fpc' = "get"
    /\ UNCHANGED <<rate_limiters, target_id, tidx, is_valid, jobs_found,
                   wait_grants, now, attempt, fetch_failed, company_status,
                   companies_scraped, companies_failed, total_errors, ats_metrics>>

\* fetch_with_retry, lines 1508-1513: the answer to the GET request. The fetchers
\* turn a status other than 200, a timeout and every exception into an empty list
\* (lines 1534-1552, 1564-1636), so _fetch_jobs returns normally whatever the
\* answer; then record_success and return. No exception reaches the handler of
\* lines 1515-1527, the only place that calls record_error and fetch_with_retry
\* with attempt + 1.
FetchJobs(answer, rtt) ==
    /\ fpc = "get"
    /\ LET a == TARGETS[tidx].ats
       IN  /\ in_flight' = [in_flight EXCEPT ![a] = Received(@)]
           /\ rate_limiters' = [rate_limiters EXCEPT ![a] = record_success(@)]
           /\ now' = now + rtt + (IF answer = "429" /\ a = "greenhouse" THEN 5000 ELSE 0)
    /\ jobs_found' = IF answer = "jobs" THEN 1 ELSE 0
    /\ fetch_failed' = IF answer \in TransientAnswers
                       THEN fetch_failed \cup {tidx} ELSE fetch_failed
    /\ fpc' = "done"
    /\ UNCHANGED <<target_id, tidx, is_valid, requests, wait_grants, attempt,
                   company_status, companies_scraped, companies_failed,
                   total_errors, ats_metrics>>

\* _process_company, after the fetch (lines 1897-1975). No postings: the target is
\* recorded with status "success" and the method returns. Otherwise the postings
\* are scored and stored; an exception sets status "failed" and errors = 1; then
\* add_company_metrics and the sleep of 0.3 s (priority <= 2) or 0.5 s, doubled
\* after an error.
TargetDone(outcome) ==
    /\ fpc = "done"
    /\ (jobs_found = 0) => (outcome = "ok")
    /\ LET t      == TARGETS[tidx]
           raised == outcome # "ok"
           status == IF raised THEN "failed" ELSE "success"
           delay  == IF t.priority <= 2 THEN 300 ELSE 500
       IN  IF raised /\ ~except_Exception(outcome)
           THEN /\ fpc' = "crashed"
                /\ UNCHANGED <<now, company_status, companies_scraped,
                               companies_failed, total_errors, ats_metrics>>
           ELSE /\ fpc' = "idle"
                /\ company_status' = [company_status EXCEPT ![tidx] = status]
                /\ companies_scraped' = companies_scraped + 1
                /\ companies_failed' = companies_failed + (IF raised THEN 1 ELSE 0)
                /\ total_errors' = total_errors + (IF raised THEN 1 ELSE 0)
                /\ ats_metrics' = AddAts(ats_metrics, t.ats, status)
                /\ now' = IF jobs_found = 0 THEN now
                          ELSE now + (IF raised THEN 2 * delay ELSE delay)
    /\ UNCHANGED <<rate_limiters, target_id, tidx, is_valid, jobs_found, requests,
                   wait_grants, in_flight, attempt, fetch_failed>>

\* JobEngine.run, step 4 (lines 1872-1883): after the last target the metrics are
\* saved and printed; save_to_firestore catches its own exceptions.
Flush ==
    /\ fpc = "idle"
    /\ tidx = Len(TARGETS)
    /\ fpc' = "flushed"
    /\ UNCHANGED <<rate_limiters, target_id, tidx, is_valid, jobs_found, requests,
                   wait_grants, now, in_flight, attempt, fetch_failed,
                   company_status, companies_scraped, companies_failed,
                   total_errors, ats_metrics>>

\* The fetch path of the other specifications is not used.
FetchIdle == FetchInit

----------------------------------------------------------------------------
\* JobScorer (job_scraper.py:337-718). Strings are the strings of the program;
\* the operators below are Python's str and re operations on them.

\* t in s
Contains(s, t) ==
    \E i \in 1..(Len(s) - Len(t) + 1) : SubSeq(s, i, i + Len(t) - 1) = t

\* s.find(t): the offset (from 0) of the first occurrence, -1 if there is none.
Find(s, t) ==
    IF Contains(s, t)
    THEN (CHOOSE i \in 1..(Len(s) - Len(t) + 1) :
             /\ SubSeq(s, i, i + Len(t) - 1) = t
             /\ \A j \in 1..(i - 1) : SubSeq(s, j, j + Len(t) - 1) # t) - 1
    ELSE -1

\* s.split(sep)
RECURSIVE SplitOn(_, _)
SplitOn(s, sep) ==
    IF ~Contains(s, sep) THEN <<s>>
    ELSE LET i == Find(s, sep)
         IN  <<SubSeq(s, 1, i)>> \o SplitOn(SubSeq(s, i + Len(sep) + 1, Len(s)), sep)

\* s.strip()
RECURSIVE LStrip(_)
LStrip(s) ==
    IF s # "" /\ SubSeq(s, 1, 1) = " " THEN LStrip(SubSeq(s, 2, Len(s))) ELSE s

RECURSIVE RStrip(_)
RStrip(s) ==
    IF s # "" /\ SubSeq(s, Len(s), Len(s)) = " "
    THEN RStrip(SubSeq(s, 1, Len(s) - 1)) ELSE s

Strip(s) == RStrip(LStrip(s))

\* s.split(): the words between runs of blanks.
SplitWords(s) == SelectSeq(SplitOn(s, " "), LAMBDA w : w # "")

\* The regular-expression class \w on the characters of the model.
WordChars ==
    {"a", "b", "c", "d", "e", "f", "g", "h", "i", "j", "k", "l", "m", "n", "o",
     "p", "q", "r", "s", "t", "u", "v", "w", "x", "y", "z", "0", "1", "2", "3",
     "4", "5", "6", "7", "8", "9", "_"}

IsWordAt(s, i) == i >= 1 /\ i <= Len(s) /\ SubSeq(s, i, i) \in WordChars

\* rf'\b{re.escape(t)}\b' matches s at position i (from 1).
WordMatchAt(s, t, i) ==
    /\ i >= 1
    /\ i + Len(t) - 1 <= Len(s)
    /\ SubSeq(s, i, i + Len(t) - 1) = t
    /\ IsWordAt(s, i - 1) # IsWordAt(s, i)
    /\ IsWordAt(s, i + Len(t) - 1) # IsWordAt(s, i + Len(t))

\* re.search(rf'\b{t}\b', s) finds a match (t is not empty).
WordSearch(s, t) == \E i \in 1..Len(s) : WordMatchAt(s, t, i)

\* len(re.findall(rf'\b{t}\b', s)): the matches, left to right, not overlapping.
RECURSIVE WordCountFrom(_, _, _)
WordCountFrom(s, t, i) ==
    LET later == { j \in i..Len(s) : WordMatchAt(s, t, j) }
    IN  IF later = {} THEN 0
        ELSE LET first == CHOOSE j \in later : \A k \in later : j <= k
             IN  1 + WordCountFrom(s, t, first + Len(t))

WordCount(s, t) == WordCountFrom(s, t, 1)

\* JobScorer.USA_LOCATIONS, EXCLUDED_LOCATIONS, US_STATE_CODES
USA_LOCATIONS ==
    {"united states", "usa", "us", "remote", "anywhere", "distributed",
     "california", "new york", "texas", "florida", "washington",
     "san francisco", "bay area", "los angeles", "seattle", "austin",
     "boston", "chicago", "denver", "portland", "san diego",
     "miami", "atlanta", "philadelphia", "detroit", "phoenix",
     "north america", "cambridge", "palo alto", "mountain view"}

EXCLUDED_LOCATIONS ==
    {"berlin", "germany", "europe", "uk", "london", "paris", "france",
     "amsterdam", "netherlands", "spain", "madrid", "barcelona",
     "italy", "rome", "sweden", "stockholm", "denmark", "copenhagen",
     "norway", "oslo", "switzerland", "zurich", "austria", "vienna",
     "poland", "warsaw", "czech", "prague", "hungary", "budapest",
     "asia", "china", "japan", "singapore", "india", "bangalore",
     "canada", "toronto", "vancouver", "montreal", "australia", "sydney",
     "latam", "brazil", "mexico", "apac", "emea", "dubai", "uae",
     "tel aviv", "israel", "auckland", "new zealand", "south africa"}

US_STATE_CODES ==
    {"al", "ak", "az", "ar", "ca", "co", "ct", "de", "fl", "ga",
     "hi", "id", "il", "in", "ia", "ks", "ky", "la", "me", "md",
     "ma", "mi", "mn", "ms", "mo", "mt", "ne", "nv", "nh", "nj",
     "nm", "ny", "nc", "nd", "oh", "ok", "or", "pa", "ri", "sc",
     "sd", "tn", "tx", "ut", "vt", "va", "wa", "wv", "wi", "wy", "dc"}

\* check_segment: remote_terms, step 1
remote_terms ==
    {"remote", "anywhere", "distributed", "global", "united states", "usa", "us",
     "u.s."}

\* check_segment with the allow list tested before the exclusion list (mutant).
check_segment_allow_first(seg) ==
    IF seg \in remote_terms THEN TRUE
    ELSE IF \E usa_loc \in USA_LOCATIONS : Contains(seg, usa_loc) THEN TRUE
    ELSE IF \E excluded \in EXCLUDED_LOCATIONS : Contains(seg, excluded) THEN FALSE
    ELSE \E state \in US_STATE_CODES : WordSearch(seg, state)

\* _is_usa_location, check_segment (lines 392-416)
check_segment(seg) ==
    IF seg \in remote_terms THEN TRUE
    ELSE IF \E excluded \in EXCLUDED_LOCATIONS : Contains(seg, excluded) THEN FALSE
    ELSE IF \E usa_loc \in USA_LOCATIONS : Contains(seg, usa_loc) THEN TRUE
    ELSE \E state \in US_STATE_CODES : WordSearch(seg, state)

\* _is_usa_location: the segments (lines 381-390): the first separator found is
\* the one used.
LocationSegments(location) ==
    LET location_lower == Strip(Lower(location))
        parts == IF Contains(location_lower, " or ")
                 THEN SplitOn(location_lower, " or ")
                 ELSE IF Contains(location_lower, "/")
                 THEN SplitOn(location_lower, "/")
                 ELSE <<location_lower>>
    IN  [k \in 1..Len(parts) |-> Strip(parts[k])]

\* JobScorer._is_usa_location
is_usa_location(location) ==
    IF location = "" THEN TRUE
    ELSE LET segments == LocationSegments(location)
         IN  \E k \in 1..Len(segments) : check_segment(segments[k])

\* COMPANY_TIERS (line 227-230)
COMPANY_TIERS ==
    [tier_s |-> {"OpenAI", "Anthropic", "Google", "Meta", "Apple", "Stripe",
                 "Airbnb", "Netflix", "Nvidia", "SpaceX", "Databricks"},
     tier_a |-> {"Scale AI", "Figma", "Notion", "Uber", "Lyft", "Coinbase",
                 "Rippling", "DoorDash", "Snowflake", "Datadog", "Spotify"}]

\* JobScorer._extract_seniority: the first level one of whose patterns is in the
\* title.
seniority_patterns ==
    << [patterns |-> {"vp", "vice president", "head of", "director", "chief", "exec"},
        level |-> "executive"],
       [patterns |-> {"principal", "distinguished", "fellow"}, level |-> "principal"],
       [patterns |-> {"staff", "senior staff"}, level |-> "staff"],
       [patterns |-> {"senior", "sr.", "sr "}, level |-> "senior"],
       [patterns |-> {"lead", "tech lead", "engineering lead", "manager"},
        level |-> "lead"],
       [patterns |-> {"mid", "mid-level", "experienced"}, level |-> "mid"],
       [patterns |-> {"junior", "jr.", "entry", "associate", "new grad"},
        level |-> "junior"],
       [patterns |-> {"intern", "internship"}, level |-> "intern"] >>

extract_seniority(title) ==
    LET t == Lower(title)
        hits == { k \in 1..Len(seniority_patterns) :
                    \E pattern \in seniority_patterns[k].patterns : Contains(t, pattern) }
    IN  IF hits = {} THEN "mid"
        ELSE seniority_patterns[CHOOSE k \in hits : \A j \in hits : k <= j].level

\* JobScorer._is_location_match
location_mappings ==
    { <<"sf", "san francisco">>, <<"bay area", "san francisco">>,
      <<"nyc", "new york">>, <<"la", "los angeles">>, <<"austin", "texas">>,
      <<"seattle", "washington">> }

is_location_match(target_loc, job_loc) ==
    \/ Contains(job_loc, target_loc)
    \/ \E m \in location_mappings :
          \/ target_loc = m[1] /\ Contains(job_loc, m[2])
          \/ target_loc = m[2] /\ Contains(job_loc, m[1])

\* re.findall(r'[0-9]+', s.replace(',', '')): the numbers of a salary string.
DigitValue(c) ==
    CASE c = "0" -> 0 [] c = "1" -> 1 [] c = "2" -> 2 [] c = "3" -> 3 [] c = "4" -> 4
      [] c = "5" -> 5 [] c = "6" -> 6 [] c = "7" -> 7 [] c = "8" -> 8 [] c = "9" -> 9

Digits == {"0", "1", "2", "3", "4", "5", "6", "7", "8", "9"}

RECURSIVE NumbersFrom(_, _, _, _)
NumbersFrom(s, i, cur, inrun) ==
    IF i > Len(s) THEN (IF inrun THEN <<cur>> ELSE <<>>)
    ELSE LET c == SubSeq(s, i, i)
         IN  IF c = "," THEN NumbersFrom(s, i + 1, cur, inrun)
             ELSE IF c \in Digits
             THEN NumbersFrom(s, i + 1, (IF inrun THEN 10 * cur ELSE 0) + DigitValue(c), TRUE)
             ELSE (IF inrun THEN <<cur>> ELSE <<>>) \o NumbersFrom(s, i + 1, 0, FALSE)

\* SalaryFinder.extract_range: <<low, high>>, <<>> for None.
extract_range(salary_str) ==
    LET numbers == NumbersFrom(salary_str, 1, 0, FALSE)
    IN  IF salary_str = "" \/ Len(numbers) < 2 THEN <<>>
        ELSE LET f  == IF Contains(Lower(salary_str), "k") THEN 1000 ELSE 1
                 n1 == numbers[1] * f
                 n2 == numbers[2] * f
             IN  <<Min(n1, n2), Max(n1, n2)>>

\* ' '.join(job.get('requirements', []))
RECURSIVE JoinBlank(_)
JoinBlank(q) ==
    IF q = <<>> THEN ""
    ELSE IF Len(q) = 1 THEN q[1]
    ELSE q[1] \o " " \o JoinBlank(Tail(q))

\* calculate_score, step 1, one keyword (lines 478-509): what it adds to
\* keyword_score and whether it is appended to matched_keywords.
KeywordDelta(job, kw) ==
    LET kw_lower          == Lower(kw)
        title_lower       == Lower(job.title)
        description_lower == Lower(job.description)
        multi             == Contains(kw_lower, " ")
        words             == SplitWords(kw_lower)
        matched_words     == SelectSeq(words, LAMBDA word : Contains(title_lower, word))
    IN  IF Contains(title_lower, kw_lower)
        THEN [add |-> IF multi THEN 30 ELSE 10, matched |-> TRUE]
        ELSE IF multi /\ matched_words # <<>>
        THEN [add |-> 5 * Len(matched_words), matched |-> TRUE]
        ELSE IF Contains(description_lower, kw_lower)
        THEN [add |-> IF Contains(Lower(JoinBlank(job.requirements)), kw_lower)
                      THEN 12 ELSE 6,
              matched |-> TRUE]
        ELSE [add |-> 0, matched |-> FALSE]

\* The loop over profile['keywords']: keyword_score and matched_keywords.
RECURSIVE KeywordMatch(_, _)
KeywordMatch(job, keywords) ==
    IF keywords = <<>> THEN [keyword_score |-> 0, matched_keywords |-> <<>>]
    ELSE LET d    == KeywordDelta(job, Head(keywords))
             rest == KeywordMatch(job, Tail(keywords))
         IN  [keyword_score |-> d.add + rest.keyword_score,
              matched_keywords |->
                 (IF d.matched THEN <<Head(keywords)>> ELSE <<>>) \o rest.matched_keywords]

\* calculate_score, step 0: the posting is rejected for its location.
location_gate_off(job) == FALSE

location_gate(job) == ~is_usa_location(job.location)

\* calculate_score, after step 1: "if not matched_keywords".
keyword_gate_off(matched_keywords) == FALSE

keyword_gate(matched_keywords) == matched_keywords = <<>>

\* calculate_score, step 3: the first target location that matches, 0 for none.
FirstLocationMatch(job, target_locs) ==
    LET location_lower    == Lower(job.location)
        description_lower == Lower(job.description)
        hits == { k \in 1..Len(target_locs) :
                    LET loc_lower == Lower(target_locs[k])
                    IN  \/ Contains(location_lower, loc_lower)
                        \/ Contains(description_lower, loc_lower)
                        \/ is_location_match(loc_lower, location_lower) }
    IN  IF hits = {} THEN 0 ELSE CHOOSE k \in hits : \A j \in hits : k <= j

\* The string-hash seed of an interpreter is drawn when the process starts; it
\* fixes the iteration order of a set of strings. The two seeds stand for the two
\* orders a set of two strings can have.
HashSeeds == {0, 1}

\* The elements of a list without repetitions, in order of first occurrence.
RECURSIVE Distinct(_)
Distinct(q) ==
    IF q = <<>> THEN <<>>
    ELSE LET front == Distinct(SubSeq(q, 1, Len(q) - 1))
             last  == q[Len(q)]
         IN  IF \E k \in 1..Len(front) : front[k] = last THEN front
             ELSE Append(front, last)

Reverse(q) == [k \in 1..Len(q) |-> q[Len(q) + 1 - k]]

\* list(set(q)): the elements of q in the iteration order of the set, which
\* depends on the hashes of the strings, that is on the seed of the process.
ListOfSet(q, seed) == IF seed = 0 THEN Distinct(q) ELSE Reverse(Distinct(q))

\* ', '.join(q)
RECURSIVE JoinComma(_)
JoinComma(q) ==
    IF q = <<>> THEN ""
    ELSE IF Len(q) = 1 THEN q[1]
    ELSE q[1] \o ", " \o JoinComma(Tail(q))

\* Line 534: f"Keywords: {', '.join(list(set(matched_keywords))[:3])}"
KeywordsFlag(matched_keywords) ==
    LET listed == ListOfSet(matched_keywords, hash_seed)
    IN  "Keywords: " \o JoinComma(SubSeq(listed, 1, Min(3, Len(listed))))

\* calculate_score, steps 1 to 7: the additive score and the flags (the flags
\* other than the keywords flag are kept as tags, without the texts they carry).
AdditiveScore(job, profile, km) ==
    LET detected  == extract_seniority(job.title)
        days_ago  == job.posted_days_ago
        loc_k     == FirstLocationMatch(job, profile.locations)
        range     == extract_range(job.salary)
        remote    == \E remote_term \in {"remote", "anywhere", "distributed", "virtual"} :
                        \/ Contains(Lower(job.location), remote_term)
                        \/ Contains(Lower(job.description), remote_term)
        parts ==
          << [add |-> Min(km.keyword_score, 50),
              flag |-> KeywordsFlag(km.matched_keywords)],
             IF \E k \in 1..Len(profile.seniority) : profile.seniority[k] = detected
             THEN [add |-> 25, flag |-> "Level"]
             ELSE IF profile.seniority = <<>> THEN [add |-> 15, flag |-> ""]
             ELSE [add |-> 0, flag |-> ""],
             IF loc_k # 0 THEN [add |-> 15, flag |-> "Location"]
             ELSE IF profile.locations = <<>> THEN [add |-> 10, flag |-> ""]
             ELSE [add |-> 0, flag |-> ""],
             IF job.company \in COMPANY_TIERS.tier_s THEN [add |-> 20, flag |-> "Top Tier"]
             ELSE IF job.company \in COMPANY_TIERS.tier_a
             THEN [add |-> 15, flag |-> "High Growth"]
             ELSE [add |-> 5, flag |-> ""],
             IF job.salary # "" THEN [add |-> 5, flag |-> "Salary"]
             ELSE [add |-> 0, flag |-> ""],
             IF job.salary # "" /\ range # <<>> /\ range[2] > 150000
             THEN [add |-> 3, flag |-> "High Salary"] ELSE [add |-> 0, flag |-> ""],
             IF days_ago <= 1 THEN [add |-> 8, flag |-> "Just Posted"]
             ELSE IF days_ago <= 3 THEN [add |-> 6, flag |-> "Very Fresh"]
             ELSE IF days_ago <= 7 THEN [add |-> 4, flag |-> "Fresh"]
             ELSE IF days_ago <= 14 THEN [add |-> 2, flag |-> "Recent"]
             ELSE [add |-> 0, flag |-> ""],
             IF remote THEN [add |-> 5, flag |-> "Remote Friendly"]
             ELSE [add |-> 0, flag |-> ""] >>
        flagged == SelectSeq(parts, LAMBDA p : p.flag # "")
    IN  [score |-> parts[1].add + parts[2].add + parts[3].add + parts[4].add
                   + parts[5].add + parts[6].add + parts[7].add + parts[8].add,
         flags |-> [k \in 1..Len(flagged) |-> flagged[k].flag],
         location_match |-> (loc_k # 0)]

\* calculate_score, step 8, one negative keyword (lines 608-643): the rejection
\* reason it gives, <<>> when it does not reject.
NegativeReason(job, neg_kw) ==
    LET neg_kw_lower      == Strip(Lower(neg_kw))
        title_lower       == Lower(job.title)
        description_lower == Lower(job.description)
        occurrences       == WordCount(description_lower, neg_kw_lower)
        first_occurrence  == Find(description_lower, neg_kw_lower)
    IN  IF Contains(title_lower, neg_kw_lower)
        THEN <<"Title contains negative keyword", neg_kw>>
        ELSE IF /\ WordSearch(description_lower, neg_kw_lower)
                /\ (occurrences >= 3 \/ first_occurrence < 200)
        THEN <<"Description emphasizes negative keyword", neg_kw, occurrences>>
        ELSE <<>>

\* The loop over profile['excludeKeywords']: the first keyword that rejects.
RECURSIVE NegativeGate(_, _)
NegativeGate(job, negative_keywords) ==
    IF negative_keywords = <<>> THEN <<>>
    ELSE LET r == NegativeReason(job, Head(negative_keywords))
         IN  IF r # <<>> THEN r ELSE NegativeGate(job, Tail(negative_keywords))

\* JobScorer.calculate_score: the dict it returns.
calculate_score(job, profile) ==
    LET detected_seniority == extract_seniority(job.title)
        days_ago == job.posted_days_ago
        km  == KeywordMatch(job, profile.keywords)
        sc  == AdditiveScore(job, profile, km)
        neg == NegativeGate(job, profile.excludeKeywords)
    IN  IF location_gate(job)
        THEN [score |-> 0, flags |-> <<"Non-USA location">>, seniority |-> "unknown",
              matched_keywords |-> <<>>, location_match |-> FALSE, days_ago |-> 999,
              rejected |-> TRUE,
              rejection_reason |-> <<"Non-USA location", job.location>>]
        ELSE IF keyword_gate(km.matched_keywords)
        THEN [score |-> 0, flags |-> <<"No keyword match">>,
              seniority |-> detected_seniority, matched_keywords |-> <<>>,
              location_match |-> FALSE, days_ago |-> days_ago, rejected |-> TRUE,
              rejection_reason |-> <<"Strict filter", job.title>>]
        ELSE IF neg # <<>>
        THEN [score |-> 0, flags |-> sc.flags, seniority |-> detected_seniority,
              matched_keywords |-> km.matched_keywords,
              location_match |-> sc.location_match, days_ago |-> days_ago,
              rejected |-> TRUE, rejection_reason |-> neg]
        ELSE IF sc.score < 15
        THEN [score |-> 0, flags |-> <<"Low relevance">>,
              seniority |-> detected_seniority,
              matched_keywords |-> km.matched_keywords, location_match |-> FALSE,
              days_ago |-> days_ago, rejected |-> TRUE,
              rejection_reason |-> <<"Low score">>]
        ELSE [score |-> Min(sc.score, 100), flags |-> sc.flags,
              seniority |-> detected_seniority,
              matched_keywords |-> km.matched_keywords,
              location_match |-> sc.location_match, days_ago |-> days_ago,
              rejected |-> FALSE, rejection_reason |-> <<>>]

\* Inputs of calculate_score: postings and profiles.
ScoreTitles ==
    {"Senior Product Manager", "Senior Software Engineer, Product",
     "Group Product Manager", "Business Development Lead"}

ScoreLocations ==
    {"", "Remote", "San Francisco, CA", "Berlin, Germany", "Cambridge, UK",
     "New York or London", "London/Paris", "Vancouver, WA",
     "Remote - UK or Toronto/Austin, TX"}

\* 47 characters; five of them fill the first 235 characters of a description.
Filler == "we build tools for teams and ship every week.  "

Pad == Filler \o Filler \o Filler \o Filler \o Filler

ScoreDescriptions ==
    {"",
     "intern program for product teams.",
     Pad \o "this role mentors one intern.",
     Pad \o "intern, intern and intern again.",
     "international product team. " \o Pad \o "you will mentor one intern.",
     "international product team."}

\* datetime.fromisoformat(s.replace('Z', '+00:00')): the day of the timestamp,
\* counted from 2024-01-01; a string that is no ISO timestamp raises ValueError.
fromisoformat(s) ==
    CASE s = "2026-11-04T08:00:00Z" -> [ok |-> TRUE, day |-> 1038]
      [] s = "2024-02-09T08:00:00Z" -> [ok |-> TRUE, day |-> 39]
      [] OTHER                      -> [ok |-> FALSE, day |-> 0]

\* _fetch_greenhouse, lines 1598-1611: posted_days_ago from 'updated_at'.
greenhouse_days_ago(updated_at, current_day) ==
    IF updated_at = None THEN 0
    ELSE IF fromisoformat(updated_at).ok
         THEN current_day - fromisoformat(updated_at).day
         ELSE 0

\* _fetch_lever, lines 1726-1733: days_ago from 'createdAt' (here in days, 0 when
\* the source gives none).
lever_days_ago(createdAt, current_day) ==
    IF createdAt # 0 THEN current_day - createdAt ELSE 0

\* 'posted_days_ago' of the dict a fetcher builds from a source posting.
fetched_days_ago(src) ==
    CASE src.ats = "greenhouse" -> greenhouse_days_ago(src.timestamp, src.fetched)
      [] src.ats = "lever"      -> lever_days_ago(src.timestamp, src.fetched)
      [] src.ats = "ashby"      -> 0

\* What else a posting carries: company, requirements, salary, and the source
\* it was fetched from with the timestamp the source gave and the day of the fetch.
ScoreExtras ==
    { [company |-> "OpenAI", requirements |-> <<"5 years as product manager">>,
       salary |-> "$160k - $200k",
       source |-> [ats |-> "greenhouse", timestamp |-> "2026-11-04T08:00:00Z",
                   fetched |-> 1038]],
      [company |-> "Acme", requirements |-> <<>>, salary |-> "",
       source |-> [ats |-> "greenhouse", timestamp |-> "2024-02-09T08:00:00Z",
                   fetched |-> 1038]] }

\* Sources that give no timestamp, or one that cannot be parsed.
UndatedSources ==
    { [ats |-> "greenhouse", timestamp |-> None, fetched |-> 1038],
      [ats |-> "greenhouse", timestamp |-> "yesterday", fetched |-> 1038],
      [ats |-> "ashby", timestamp |-> None, fetched |-> 1038],
      [ats |-> "lever", timestamp |-> 0, fetched |-> 1038] }

\* The dict a fetcher appends to jobs, with the source it was mapped from.
Fetched(t, l, d, x) ==
    [job |-> [title |-> t, location |-> l, description |-> d, company |-> x.company,
              requirements |-> x.requirements, salary |-> x.salary,
              posted_days_ago |-> fetched_days_ago(x.source)],
     source |-> x.source]

ScoreFetched ==
    { Fetched(t, l, d, x) :
        t \in ScoreTitles, l \in ScoreLocations, d \in ScoreDescriptions,
        x \in ScoreExtras }
    \cup
    { Fetched("Senior Product Manager", l, "",
              [company |-> "Acme", requirements |-> <<>>, salary |-> "",
               source |-> src]) :
        l \in {"Remote", "Berlin, Germany"}, src \in UndatedSources }

ScoreJobs == { f.job : f \in ScoreFetched }

\* min_score is 'minMatchScore' of the user document, 40 when it has none
\* (line 1409), and 30 in the default profile (line 1430).
ScoreProfiles ==
    { [keywords |-> k, excludeKeywords |-> e, seniority |-> p[1], locations |-> p[2],
       min_score |-> p[3]] :
        k \in {<<>>, <<"Product Manager">>, <<"product", "Product Manager">>, <<"pm">>},
        e \in {<<>>, <<"Intern">>, <<"manager">>},
        p \in {<<<<>>, <<>>, 30>>, <<<<"senior">>, <<"sf">>, 40>>} }

ScoreInit ==
    /\ \E f \in ScoreFetched : score_job = f.job /\ score_source = f.source
    /\ score_profile \in ScoreProfiles
    /\ scoring = <<>>
    /\ scoring_prev = <<>>
    /\ hash_seed \in HashSeeds

\* The scorer of the other specifications is not used.
ScoreIdle ==
    /\ score_job = [title |-> "", location |-> "", description |-> "",
                    company |-> "", requirements |-> <<>>, salary |-> "",
                    posted_days_ago |-> 999]
    /\ score_source = [ats |-> "ashby", timestamp |-> None, fetched |-> 0]
    /\ score_profile = [keywords |-> <<>>, excludeKeywords |-> <<>>,
                        seniority |-> <<>>, locations |-> <<>>, min_score |-> 40]
    /\ scoring = <<>>
    /\ scoring_prev = <<>>
    /\ hash_seed = 0

\* _process_company, lines 1917-1922: the pair goes on to the store when the
\* result is not rejected and its score reaches the profile's min_score.
meets_min_score(result, profile) ==
    ~result.rejected /\ result.score >= profile.min_score

\* _process_company, line 1915: scoring = JobScorer.calculate_score(job, profile)
\* The pair is scored again in every run in which the posting is fetched.
Score ==
    /\ scoring_prev = <<>>
    /\ scoring' = calculate_score(score_job, score_profile)
    /\ scoring_prev' = scoring
    /\ UNCHANGED <<score_job, score_source, score_profile, hash_seed>>

\* The next run of the scraper is a new interpreter process (lines 1981-1988):
\* it draws its own string-hash seed.
NewProcess ==
    /\ scoring # <<>>
    /\ scoring_prev = <<>>
    /\ hash_seed' \in HashSeeds
    /\ UNCHANGED <<score_job, score_source, score_profile, scoring, scoring_prev>>

----------------------------------------------------------------------------
\* The specifications.
StoreIdle ==
    /\ jobs = EmptyColl
    /\ user_job_matches = EmptyColl
    /\ job_id_cache = {}
    /\ batch = <<>>
    /\ batch_count = 0
    /\ successful_matches = 0
    /\ pc = "idle"
    /\ phase = "init"
    /\ today = 0
    /\ missingFieldRaises = TRUE
    /\ accepted = {}
    /\ written = {}
    /\ processed = 0
    /\ call_nonempty = FALSE
    /\ ticks = 0
    /\ runs = 0
    /\ commit_failed = FALSE
    /\ committed_writes = {}
    /\ commit_tries = 0
    /\ user_marked = {}
    /\ total_matches_created = 0
    /\ user_match_counts = [e \in Emails |-> 0]

Init == StoreInit /\ RateIdle /\ FetchIdle /\ ScoreIdle

Next ==
    \/ NewRun /\ UNCHANGED <<rateVars, fetchVars, scoreVars>>
    \/ Cleanup /\ UNCHANGED <<rateVars, fetchVars, scoreVars>>
    \/ StartBatch /\ UNCHANGED <<rateVars, fetchVars, scoreVars>>
    \/ \E job \in Postings, email \in Emails, commitOk \in BOOLEAN :
          LoopItem(job, email, commitOk) /\ UNCHANGED <<rateVars, fetchVars, scoreVars>>
    \/ \E commitOk \in BOOLEAN : FinalCommit(commitOk) /\ UNCHANGED <<rateVars, fetchVars, scoreVars>>
    \/ \E d \in {1, JOB_EXPIRATION_DAYS, JOB_EXPIRATION_DAYS + 1} :
          Tick(d) /\ UNCHANGED <<rateVars, fetchVars, scoreVars>>
    \/ \E match_id \in DOMAIN user_job_matches, f \in {"viewed", "saved", "applied"} :
          UserMarks(match_id, f) /\ UNCHANGED <<rateVars, fetchVars, scoreVars>>

Spec == Init /\ [][Next]_vars

InitRate == RateInit /\ StoreIdle /\ FetchIdle /\ ScoreIdle

NextRate ==
    \/ \E jitter \in JitterPct : RateWait(jitter) /\ UNCHANGED <<storeVars, fetchVars, scoreVars>>
    \/ RateRecordError /\ UNCHANGED <<storeVars, fetchVars, scoreVars>>
    \/ RateRecordSuccess /\ UNCHANGED <<storeVars, fetchVars, scoreVars>>
    \/ \E d \in {50, 1000} : RateAdvance(d) /\ UNCHANGED <<storeVars, fetchVars, scoreVars>>

SpecRate == InitRate /\ [][NextRate]_vars

\* In SpecFetch the clock is the only limiter variable of SpecRate that moves.
rateRest == <<limiter, rate_milli, last_op, delay_before, grants, first_grant,
              last_gap, ops>>

InitFetch == FetchInit /\ StoreIdle /\ RateIdle /\ ScoreIdle

NextFetch ==
    \/ FetchBegin /\ UNCHANGED <<storeVars, rateRest, scoreVars>>
    \/ SendHead /\ UNCHANGED <<storeVars, rateRest, scoreVars>>
    \/ \E answer \in HeadAnswers, rtt \in RoundTrips :
          Validate(answer, rtt) /\ UNCHANGED <<storeVars, rateRest, scoreVars>>
    \/ \E jitter \in JitterPct : LimiterWait(jitter) /\ UNCHANGED <<storeVars, rateRest, scoreVars>>
    \/ SendGet /\ UNCHANGED <<storeVars, rateRest, scoreVars>>
    \/ \E answer \in GetAnswers, rtt \in RoundTrips :
          FetchJobs(answer, rtt) /\ UNCHANGED <<storeVars, rateRest, scoreVars>>
    \/ \E outcome \in ProcessOutcomes :
          TargetDone(outcome) /\ UNCHANGED <<storeVars, rateRest, scoreVars>>
    \/ Flush /\ UNCHANGED <<storeVars, rateRest, scoreVars>>

SpecFetch == InitFetch /\ [][NextFetch]_vars

InitScore == ScoreInit /\ StoreIdle /\ RateIdle /\ FetchIdle

NextScore ==
    \/ Score /\ UNCHANGED <<storeVars, rateVars, fetchVars>>
    \/ NewProcess /\ UNCHANGED <<storeVars, rateVars, fetchVars>>

SpecScore == InitScore /\ [][NextScore]_vars

\* The run is one coroutine on the event loop: a step that can be taken is taken.
SpecFetchLive == SpecFetch /\ WF_vars(NextFetch)

----------------------------------------------------------------------------
\* Properties of the store (checked under Spec).

\* The identity of a posting in the data model: lowercased company, title, location.
DedupKey(p) == <<Lower(p.company), Lower(p.title), Lower(p.location)>>

JobIdOf(p) == generate_job_id(p.company, p.title)

\* The stored job records / match records that belong to a posting.
JobRecordsFor(p) ==
    { id \in DOMAIN jobs :
        <<Lower(jobs[id].company), Lower(jobs[id].title), Lower(jobs[id].location)>>
            = DedupKey(p) }

MatchRecordsFor(user_id, p) ==
    { m \in DOMAIN user_job_matches :
        /\ user_job_matches[m].userId = user_id
        /\ user_job_matches[m].jobId \in JobRecordsFor(p) }

\* Every ingestion so far lies within the expiration window and none has failed.
AllWithinWindow == today < JOB_EXPIRATION_DAYS /\ ~commit_failed

\* C1: when add_job_and_match_batch has returned, a posting that was ingested more
\* than once within the expiration window (for two users, in one run or in two)
\* has exactly one JobRecord, and exactly one MatchRecord for each user that
\* accepted it.
C1_IdempotentIngestion ==
    (pc = "returned" /\ AllWithinWindow) =>
        \A a \in accepted, b \in accepted :
            (a # b /\ DedupKey(a[1]) = DedupKey(b[1]) /\ AuthUid(a[2]) # None) =>
                /\ Cardinality(JobRecordsFor(a[1])) = 1
                /\ Cardinality(MatchRecordsFor(AuthUid(a[2]), a[1])) = 1

\* C2: two match writes target the same MatchRecord id exactly when they are for
\* the same (userId, profile, dedupKey) triple.
MatchTriple(a) == <<AuthUid(a[2]), a[2], DedupKey(a[1])>>

C2_MatchIdIsTheTriple ==
    \A a \in written, b \in written :
        (MatchId(AuthUid(a[2]), JobIdOf(a[1])) = MatchId(AuthUid(b[2]), JobIdOf(b[1])))
            <=> (MatchTriple(a) = MatchTriple(b))

\* C3: two postings handed to the store get the same job id exactly when their
\* lowercased (company, title, location) agree.
C3_DedupKeyInjective ==
    \A a \in accepted, b \in accepted :
        (JobIdOf(a[1]) = JobIdOf(b[1])) <=> (DedupKey(a[1]) = DedupKey(b[1]))

\* C4: the existence check answers true exactly for a stored record whose age
\* since first sight is below the expiration window.
StoredUnexpired(job_id) ==
    /\ job_id \in DOMAIN jobs
    /\ today - FirstSeen(jobs[job_id]) < JOB_EXPIRATION_DAYS

C4_ExistsIffStoredUnexpired ==
    \A job_id \in JobIds : check_job_exists(job_id) <=> StoredUnexpired(job_id)

\* C5: in every state the job write of an accepted pair has been committed exactly
\* when the match write of the same pair has been committed.
Tag(coll, pair) == [coll |-> coll, pair |-> pair]

C5_PairAllOrNothing ==
    \A pair \in accepted :
        (Tag("jobs", pair) \in committed_writes)
            <=> (Tag("user_job_matches", pair) \in committed_writes)

\* C5 witness: one pair committed (both writes), another pair's commit failed.
C5_Witness ==
    /\ commit_failed
    /\ pc = "raised"
    /\ \E pair \in accepted :
          /\ Tag("jobs", pair) \in committed_writes
          /\ Tag("user_job_matches", pair) \in committed_writes
    /\ \E pair \in written : Tag("jobs", pair) \notin committed_writes

\* C6: when the call for a target ends, its accepted pairs are committed all or
\* none: no batch stays committed while a later batch of the call was lost.
C6_TargetAllOrNone ==
    (pc \in {"returned", "raised"}) => (committed_writes = {} \/ batch = <<>>)

\* C15: a batch commit that fails is tried again at the commit level: the call
\* gives up (the write error leaves add_job_and_match_batch) only after the
\* failed commit has been retried.
C15_CommitRetried ==
    (pc = "raised") => (commit_tries >= 2)

----------------------------------------------------------------------------
\* Properties of the RateLimiter (checked under SpecRate).

\* C7: two consecutive grants of a limiter configured at R calls per second are
\* at least 1/R apart, so N sequential wait() calls take at least (N-1)/R.
C7_RateBound ==
    (grants >= 2) =>
        /\ last_gap >= BaseDelay(rate_milli)
        /\ limiter.last_call - first_grant >= (grants - 1) * BaseDelay(rate_milli)

\* C8: a record_success call leaves the delay between the configured base delay
\* and the delay before the call.
C8_RecoveryWithinBounds ==
    (last_op = "success") =>
        /\ BaseDelay(rate_milli) <= limiter.delay
        /\ limiter.delay <= delay_before

\* C9: a record_error call leaves the delay unchanged while the consecutive-error
\* count is at most 3 and otherwise sets it to min(1.5 x delay, 10 s); with a base
\* delay of at most 10 s the delay never exceeds 10 s.
C9_ErrorBackoff ==
    /\ (last_op = "error") =>
          limiter.delay = IF limiter.consecutive_errors <= ERROR_THRESHOLD
                          THEN delay_before
                          ELSE Min((delay_before * 3) \div 2, MAX_DELAY_MS)
    /\ (BaseDelay(rate_milli) <= MAX_DELAY_MS) => (limiter.delay <= MAX_DELAY_MS)

\* C9 witness: the fourth consecutive error of a limiter whose delay times 1.5
\* would pass 10 s: the delay is set to the cap.
C9_Witness ==
    /\ last_op = "error"
    /\ limiter.consecutive_errors > ERROR_THRESHOLD
    /\ BaseDelay(rate_milli) <= MAX_DELAY_MS
    /\ (delay_before * 3) \div 2 > MAX_DELAY_MS
    /\ limiter.delay = MAX_DELAY_MS

----------------------------------------------------------------------------
\* Properties of the fetch path (checked under SpecFetch).

\* C10: every HTTP request sent to an ATS follows a wait() grant of that ATS's
\* limiter, one grant per request: no source has sent more requests than its
\* limiter has granted.
C10_RequestAfterGrant ==
    \A a \in ATS : requests[a] <= wait_grants[a]

\* C11: in every state of a run the requests in flight to any one ATS are at most
\* the configured concurrency cap.
C11_InFlightWithinCap ==
    \A a \in ATS : in_flight[a] <= ConnectorLimit

\* C11 witness: a request to an ATS is in flight after earlier targets of the same
\* ATS have sent theirs.
C11_Witness ==
    /\ tidx = Len(TARGETS)
    /\ in_flight["greenhouse"] = 1
    /\ requests["greenhouse"] >= 3

\* C12: a fetch that met a transient condition (network error, timeout, 5xx, 429)
\* yields its empty result only after RETRY_ATTEMPTS attempts.
C12_TransientRetried ==
    (fpc = "done" /\ tidx \in fetch_failed) => (attempt = RETRY_ATTEMPTS)

\* C13: a target whose fetch failed is recorded as failed, the failed-target
\* counter and the per-source failed counts count each failed target once, and no
\* exception leaves the pipeline.
FailedTargets == { k \in 1..Len(TARGETS) : company_status[k] = "failed" }

C13_FailedFetchCounted ==
    /\ \A k \in fetch_failed : company_status[k] \in {"pending", "failed"}
    /\ companies_failed = Cardinality(FailedTargets)
    /\ \A a \in ATS :
          ats_metrics[a].failed =
              Cardinality({ k \in FailedTargets : TARGETS[k].ats = a })
    /\ fpc # "crashed"

\* C14: whatever fails on individual targets, the run eventually has processed
\* every target of the list and reached the final metrics flush.
C14_EveryTargetThenFlush ==
    <>(fpc = "flushed" /\ companies_scraped = Len(TARGETS))

\* C14 witness: the flush is reached after the first target failed in the store
\* or in scoring and a later target was processed with success.
C14_Witness ==
    /\ fpc = "flushed"
    /\ company_status[1] = "failed"
    /\ company_status[Len(TARGETS)] = "success"
    /\ companies_scraped = Len(TARGETS)

----------------------------------------------------------------------------
\* Properties of the scorer (checked under SpecScore).

\* The role-root phrases of disciplines no profile is interested in.
BlockedRoleRoots == {"software engineer"}

\* C16: a posting whose lowercased title contains a blocked role-root phrase is
\* rejected for every profile, however many keywords match.
C16_HardTitleBlock ==
    (/\ scoring # <<>>
     /\ \E root \in BlockedRoleRoots : Contains(Lower(score_job.title), root))
        => scoring.rejected

\* A keyword occurs in the posting: in the title, one of its words in the title,
\* or in the description.
KeywordOccurs(job, kw) ==
    \/ Contains(Lower(job.title), Lower(kw))
    \/ \E k \in 1..Len(SplitWords(Lower(kw))) :
          Contains(Lower(job.title), SplitWords(Lower(kw))[k])
    \/ Contains(Lower(job.description), Lower(kw))

NoKeywordOccurs ==
    \A k \in 1..Len(score_profile.keywords) :
        ~KeywordOccurs(score_job, score_profile.keywords[k])

RECURSIVE SplitEach(_, _)
SplitEach(parts, sep) ==
    IF parts = <<>> THEN <<>>
    ELSE SplitOn(Head(parts), sep) \o SplitEach(Tail(parts), sep)

FineSegments(location) ==
    LET parts == SplitEach(SplitOn(Strip(Lower(location)), " or "), "/")
    IN  { Strip(parts[k]) : k \in 1..Len(parts) }

ContainsExcluded(seg) == \E excluded \in EXCLUDED_LOCATIONS : Contains(seg, excluded)

ContainsDomestic(seg) ==
    \/ \E usa_loc \in USA_LOCATIONS : Contains(seg, usa_loc)
    \/ \E state \in US_STATE_CODES : WordSearch(seg, state)

AllSegments(location) ==
    FineSegments(location)
        \cup { LocationSegments(location)[k] : k \in 1..Len(LocationSegments(location)) }

\* C18: a location segment that contains an excluded-region term never passes,
\* also when it contains a domestic region or a state code; a posting all of whose
\* segments contain an excluded-region term is rejected.
C18_ExclusionPrecedence ==
    /\ \A seg \in AllSegments(score_job.location) :
          ContainsExcluded(seg) => ~check_segment(seg)
    /\ (/\ scoring # <<>>
        /\ \A seg \in FineSegments(score_job.location) : ContainsExcluded(seg))
          => (scoring.rejected /\ scoring.rejection_reason[1] = "Non-USA location")

\* C18 witness: a rejected posting whose only segment holds an excluded-region
\* term and a domestic region.
C18_Witness ==
    /\ scoring # <<>>
    /\ \A seg \in FineSegments(score_job.location) :
          ContainsExcluded(seg) /\ ContainsDomestic(seg)
    /\ scoring.rejected
    /\ scoring.rejection_reason[1] = "Non-USA location"

\* C19: a posting whose location fails the location gate is rejected with the
\* non-domestic-location reason, score 0 and no matched keyword, whatever its
\* title and the profile's keywords and excluded keywords.
C19_LocationGateFirst ==
    (scoring # <<>> /\ ~is_usa_location(score_job.location)) =>
        /\ scoring.rejected
        /\ scoring.rejection_reason = <<"Non-USA location", score_job.location>>
        /\ scoring.matched_keywords = <<>>
        /\ scoring.score = 0
        /\ scoring.flags = <<"Non-USA location">>

\* C19 witness: the location fails while a keyword matches the title and an
\* excluded keyword is in the title: the result is the location rejection.
C19_Witness ==
    /\ scoring # <<>>
    /\ ~is_usa_location(score_job.location)
    /\ \E k \in 1..Len(score_profile.keywords) :
          Contains(Lower(score_job.title), Lower(score_profile.keywords[k]))
    /\ \E k \in 1..Len(score_profile.excludeKeywords) :
          Contains(Lower(score_job.title), Lower(score_profile.excludeKeywords[k]))
    /\ scoring.rejection_reason[1] = "Non-USA location"

\* An excluded keyword is prominent in a posting: it is in the title, or it
\* occurs in the description (as a word) at least 3 times or first within the
\* first 200 characters.
FirstWordOffset(s, t) ==
    LET at == { i \in 1..Len(s) : WordMatchAt(s, t, i) }
    IN  IF at = {} THEN -1 ELSE (CHOOSE i \in at : \A j \in at : i <= j) - 1

Prominent(job, neg_kw) ==
    LET k == Strip(Lower(neg_kw))
        d == Lower(job.description)
    IN  \/ Contains(Lower(job.title), k)
        \/ WordCount(d, k) >= 3
        \/ (WordSearch(d, k) /\ FirstWordOffset(d, k) < 200)

ReachedNegativeGate ==
    /\ scoring # <<>>
    /\ \/ scoring.rejection_reason = <<>>
       \/ scoring.rejection_reason[1] \notin {"Non-USA location", "Strict filter"}

RejectedByNegativeGate ==
    /\ scoring.rejection_reason # <<>>
    /\ scoring.rejection_reason[1] \in
          {"Title contains negative keyword", "Description emphasizes negative keyword"}

\* C20: the negative-keyword gate rejects a posting that reached it exactly when
\* some excluded keyword is prominent; one occurrence at offset 200 or later, with
\* none in the title, does not reject.
C20_NegativeGateIffProminent ==
    ReachedNegativeGate =>
        (RejectedByNegativeGate <=>
            \E k \in 1..Len(score_profile.excludeKeywords) :
                Prominent(score_job, score_profile.excludeKeywords[k]))

\* C21: a result that is not rejected has a score of at least the profile's
\* configured minimum score.
C21_NotRejectedMeetsMinimum ==
    (scoring # <<>> /\ ~scoring.rejected) => scoring.score >= score_profile.min_score

\* C22: two calls of calculate_score with the same posting and profile return the
\* same dict, whenever and in whatever process they are made.
C22_Deterministic ==
    (scoring # <<>> /\ scoring_prev # <<>>) => scoring = scoring_prev

\* C23: a matched single-word keyword occurs as a word (between word boundaries)
\* in the title, the description or the requirements of the posting.
C23_SingleWordAtBoundary ==
    (scoring # <<>>) =>
        \A k \in 1..Len(scoring.matched_keywords) :
            LET kw_lower == Lower(scoring.matched_keywords[k])
            IN  ~Contains(kw_lower, " ") =>
                    \/ WordSearch(Lower(score_job.title), kw_lower)
                    \/ WordSearch(Lower(score_job.description), kw_lower)
                    \/ WordSearch(Lower(JoinBlank(score_job.requirements)), kw_lower)

\* C24: a matched multi-word keyword whose phrase is neither in the title nor in
\* the description has all of its words in the title, and adds less to the
\* keyword score than an exact phrase in the title does (30).
C24_PartialMatchAllWords ==
    (scoring # <<>>) =>
        \A k \in 1..Len(scoring.matched_keywords) :
            LET kw          == scoring.matched_keywords[k]
                kw_lower    == Lower(kw)
                title_lower == Lower(score_job.title)
                words       == SplitWords(kw_lower)
            IN  (/\ Contains(kw_lower, " ")
                 /\ ~Contains(title_lower, kw_lower)
                 /\ ~Contains(Lower(score_job.description), kw_lower))
                    => /\ \A j \in 1..Len(words) : Contains(title_lower, words[j])
                       /\ KeywordDelta(score_job, kw).add < 30

\* The source gave no timestamp, or one that could not be parsed.
Undated(src) ==
    \/ src.ats = "ashby"
    \/ src.ats = "lever" /\ src.timestamp = 0
    \/ src.ats = "greenhouse"
          /\ (src.timestamp = None \/ ~fromisoformat(src.timestamp).ok)

\* C25: the result for a posting whose source gave no usable timestamp carries a
\* days_ago beyond every freshness band (more than 14) and no freshness flag.
C25_UndatedNotFresh ==
    (scoring # <<>> /\ Undated(score_source)) =>
        /\ scoring.days_ago > 14
        /\ \A k \in 1..Len(scoring.flags) :
              scoring.flags[k] \notin {"Just Posted", "Very Fresh", "Fresh", "Recent"}

----------------------------------------------------------------------------
\* Further properties of the store (checked under Spec).

\* The match document of a pair is in the store.
MatchStored(a) ==
    MatchId(AuthUid(a[2]), JobIdOf(a[1])) \in DOMAIN user_job_matches

\* C26: when one call was handed the same posting for two registered users and
\* every commit succeeded, the match of one user is stored only together with
\* the match of the other.
C26_BothUsersMatched ==
    (pc = "returned" /\ ~commit_failed /\ runs = 1) =>
        \A a \in accepted, b \in accepted :
            (/\ a[1] = b[1]
             /\ a[2] # b[2]
             /\ AuthUid(a[2]) # None
             /\ AuthUid(b[2]) # None
             /\ MatchStored(a)) => MatchStored(b)

\* C27: every job id in job_id_cache is the id of a document of the collection
\* 'jobs'.
C27_CacheIsCommitted ==
    \A job_id \in job_id_cache : job_id \in DOMAIN jobs

\* C28: a field of a match document the user has set to True is still True in
\* the stored document, however often the match is written again.
C28_UserFieldsKept ==
    \A m \in user_marked :
        (m[1] \in DOMAIN user_job_matches) => user_job_matches[m[1]][m[2]]

\* C29: the batch add_job_and_match_batch holds, and so every batch it calls
\* commit on, has at most FIREBASE_BATCH_SIZE job/match pairs (two writes each).
C29_BatchWithinSize ==
    /\ batch_count <= FIREBASE_BATCH_SIZE
    /\ Len(batch) <= 2 * FIREBASE_BATCH_SIZE

\* The match documents that commits of the run's call have written.
CommittedMatches ==
    { w \in committed_writes : w.coll = "user_job_matches" }

RECURSIVE SumOver(_, _)
SumOver(f, S) ==
    IF S = {} THEN 0
    ELSE LET x == CHOOSE x \in S : TRUE IN f[x] + SumOver(f, S \ {x})

\* C30: when the run reports, total_matches_created and the sum of the per-user
\* match counts both equal the number of match documents that were committed.
C30_ReportedEqualsCommitted ==
    (phase = "report") =>
        /\ total_matches_created = Cardinality(CommittedMatches)
        /\ SumOver(user_match_counts, Emails) = Cardinality(CommittedMatches)

====
